---- MODULE Spec2Model ----
(***************************************************************************)
(* Model of scripts/optimize_images.py (xcv58/ShortcutCycle): the batch    *)
(* image optimizer.  The filesystem is reduced to what the script reads    *)
(* (does a source exist, what are its pixel dimensions, does Pillow fail   *)
(* on it) and what it writes (the artifacts in OUTPUT_DIR).                *)
(*                                                                         *)
(* Two specifications:                                                     *)
(*   Spec    the process: module import, main(), the loop over             *)
(*           FILES_TO_PROCESS, the icon, exit; run again on the same       *)
(*           inputs up to MaxRuns times.                                   *)
(*   SpecFn  one call of optimize_image or optimize_icon with arguments    *)
(*           drawn from bounded sets.                                      *)
(***************************************************************************)
EXTENDS Integers, Sequences, FiniteSets, TLC

VARIABLES
    pillow,      \* TRUE iff the Pillow package can be imported
    fs,          \* source path -> [exists, w, h, fail]: the input files
    dirExists,   \* OUTPUT_DIR exists
    outputs,     \* file name in OUTPUT_DIR -> [w, h, fmt]
    pc,          \* position of the process
    idx,         \* position of the loop over FILES_TO_PROCESS (1-based)
    count,       \* main's local `count`
    exitStatus,  \* <<>> while running, <<status>> once the process has ended
    run,         \* number of the current run of the script
    firstRun,    \* OUTPUT_DIR as the first run left it
    madeDir,     \* this run called os.makedirs(OUTPUT_DIR)
    examined,    \* source paths this run has tested with os.path.exists
    written,     \* file names this run has saved, in order
    call         \* the last call of optimize_image / optimize_icon

vars == <<pillow, fs, dirExists, outputs, pc, idx, count, exitStatus, run,
          firstRun, madeDir, examined, written, call>>

----------------------------------------------------------------------------
(* Bounds of the model *)

\* Source dimensions of SpecFn range over 1..MaxDim (plus SampleSizes).
MaxDim == 5
\* Number of entries of the `widths` argument in SpecFn.
MaxTargets == 2
\* Number of source files of Spec that deviate from the default profile.
MaxVaried == 1
\* Number of consecutive runs of the script in Spec.
MaxRuns == 2

----------------------------------------------------------------------------
(* Configuration: optimize_images.py lines 10-37 *)

ICON_PATH == "1024.png"

FILES_TO_PROCESS ==
    << [filename |-> "HUD Light.png",              output_name |-> "hud-light"],
       [filename |-> "HUD-Grid Light.png",         output_name |-> "hud-grid-light"],
       [filename |-> "HUD Dark.png",               output_name |-> "hud-dark"],
       [filename |-> "HUD-Grid Dark.png",          output_name |-> "hud-grid-dark"],
       [filename |-> "General Light.png",          output_name |-> "general-light"],
       [filename |-> "General Dark.png",           output_name |-> "general-dark"],
       [filename |-> "Group Light.png",            output_name |-> "group-light"],
       [filename |-> "Group Dark.png",             output_name |-> "group-dark"],
       [filename |-> "Menubar and languages.png",  output_name |-> "menubar-languages"],
       [filename |-> "Automatic Backups.png",      output_name |-> "automatic-backups"],
       [filename |-> "Automatic Backups Dark.png", output_name |-> "automatic-backups-dark"] >>

TARGET_WIDTHS ==
    << [label |-> "large", width |-> 1800],
       [label |-> "small", width |-> 900] >>

MAX_WIDTH_ICON == 160

ICON_OUTPUT_NAME == "app-icon"

Screenshots == {FILES_TO_PROCESS[i].filename : i \in 1..Len(FILES_TO_PROCESS)}

AllSources == Screenshots \cup {ICON_PATH}

----------------------------------------------------------------------------
(* Python float arithmetic of `int(img.height * (width / img.width))`      *)

RECURSIVE Pow2Mod(_, _)
\* 2^k mod m
Pow2Mod(k, m) == IF k = 0 THEN 1 % m ELSE (2 * Pow2Mod(k - 1, m)) % m

RECURSIVE Pow2(_)
Pow2(k) == IF k = 0 THEN 1 ELSE 2 * Pow2(k - 1)

RECURSIVE ILog2(_)
\* floor(log2(n)) for n >= 1
ILog2(n) == IF n < 2 THEN 0 ELSE 1 + ILog2(n \div 2)

RECURSIVE QuotientShift(_, _, _)
\* for 0 < a < b: the least j >= 1 with a * 2^j >= b, so that the double
\* a / b has its 53-bit mantissa scaled by 2^(52 + j)
QuotientShift(a, b, j) == IF a * Pow2(j) >= b THEN j ELSE QuotientShift(a, b, j + 1)

\* int(h * (width / w)) for integers 0 < width < w, h >= 1, evaluated in
\* IEEE-754 binary64 with round-to-nearest-even, as CPython does:
\*   ratio = fl(width / w), product = fl(h * ratio), int() truncates.
\* When w does not divide h * width the product is not within a rounding
\* error of an integer and truncation gives the exact floor.  When the exact
\* value is an integer n, the product is below n exactly when the quotient
\* was rounded down (rem < w / 2) by more than half the spacing of the
\* doubles just below n.
IntOfProduct(h, width, w) ==
    LET exact == (h * width) \div w
        j     == QuotientShift(width, w, 1)
        rem   == (width * Pow2Mod(52 + j, w)) % w
        m     == ILog2(exact)
        c     == IF exact = Pow2(m) THEN 4 ELSE 2
    IN  IF (h * width) % w # 0 THEN exact
        ELSE IF rem = 0 \/ 2 * rem > w THEN exact
        ELSE IF c * h * rem > w * Pow2(m + j) THEN exact - 1
        ELSE exact

----------------------------------------------------------------------------
(* The input files and the artifacts *)

\* How Pillow fails on a source: op = "none" never; "decode" in Image.open /
\* copy; "resize" in the resize of variant `at`; "encode" in the save of
\* variant `at`.
NoFail == [op |-> "none", at |-> 0]

Missing == [exists |-> FALSE, w |-> 0, h |-> 0, fail |-> NoFail]

Present(w, h, fail) == [exists |-> TRUE, w |-> w, h |-> h, fail |-> fail]

FailModes(n) ==
    {NoFail, [op |-> "decode", at |-> 0]}
        \cup {[op |-> o, at |-> k] : o \in {"resize", "encode"}, k \in 1..n}

Artifact(img) == [w |-> img.w, h |-> img.h, fmt |-> "WEBP"]

EmptyDir == [n \in {} |-> Artifact([w |-> 0, h |-> 0])]

\* Result of a call: the output directory, the artifacts saved in order, and
\* whether an exception left the function.
Result(out, log, raised) == [out |-> out, log |-> log, raised |-> raised]

----------------------------------------------------------------------------
(* optimize_image *)

\* `img` before the first iteration of the loop has bound it
Unbound == [w |-> 0, h |-> 0]

\* the loop keeps working on the image of the previous iteration
CopyOnce(original_img, img) == IF img = Unbound THEN original_img ELSE img

\* line 47: img = original_img.copy() rebinds img in every iteration
CopyOriginal(original_img, img) == original_img

\* line 50: `if img.width > width`
NeedsResize(img_width, width) == img_width > width

\* the height is taken over unscaled
NewHeightUnscaled(img, width) == img.h

\* lines 51-52: ratio = width / img.width; new_height = int(img.height * ratio)
NewHeight(img, width) == IntOfProduct(img.h, width, img.w)

\* line 53: img.resize((width, new_height), LANCZOS); Pillow raises
\* ValueError ("height and width must be > 0") for an empty size
ResizeRaises(width, new_height) == width < 1 \/ new_height < 1

\* every variant gets its label appended
FinalNameSuffixed(output_name_base, suffix) ==
    output_name_base \o "-" \o suffix \o ".webp"

\* every variant is written under the base name
FinalNameBare(output_name_base, suffix) == output_name_base \o ".webp"

\* lines 58-61
FinalName(output_name_base, suffix) ==
    IF suffix = "large"
    THEN output_name_base \o ".webp"
    ELSE output_name_base \o "-" \o suffix \o ".webp"

\* an existing file is kept and the image goes to a numbered name
SaveNoClobber(out, final_name, img) ==
    LET target == IF final_name \in DOMAIN out THEN final_name \o ".1" ELSE final_name
    IN  [n \in DOMAIN out \cup {target} |->
            IF n = target THEN Artifact(img) ELSE out[n]]

\* line 64: img.save(output_path, "WEBP", quality=80) creates or overwrites
Save(out, final_name, img) ==
    [n \in DOMAIN out \cup {final_name} |->
        IF n = final_name THEN Artifact(img) ELSE out[n]]

RECURSIVE VariantLoop(_, _, _, _, _, _, _, _)
\* lines 46-65: the loop over widths.items(), from entry i on; prev is what
\* the local `img` is bound to on entry.  An exception ends the loop; what
\* was saved before stays.
VariantLoop(original_img, fail, dirOk, output_name_base, widths, i, prev, acc) ==
    IF i > Len(widths) THEN acc
    ELSE
      LET suffix     == widths[i].label
          width      == widths[i].width
          img        == CopyOriginal(original_img, prev)
          resizing   == NeedsResize(img.w, width)
          new_height == NewHeight(img, width)
          resizeErr  == resizing /\ (ResizeRaises(width, new_height)
                                      \/ fail = [op |-> "resize", at |-> i])
          resized    == IF resizing THEN [w |-> width, h |-> new_height] ELSE img
          final_name == FinalName(output_name_base, suffix)
          saveErr    == ~dirOk \/ fail = [op |-> "encode", at |-> i]
      IN  IF resizeErr \/ saveErr
          THEN Result(acc.out, acc.log, TRUE)
          ELSE VariantLoop(original_img, fail, dirOk, output_name_base, widths, i + 1,
                   resized,
                   Result(Save(acc.out, final_name, resized),
                          Append(acc.log, [name |-> final_name, w |-> resized.w, h |-> resized.h]),
                          FALSE))

\* lines 44-65: the body of the try statement
ImageTryBody(src, dirOk, output_name_base, widths, out) ==
    IF src.fail.op = "decode"
    THEN Result(out, <<>>, TRUE)
    ELSE VariantLoop([w |-> src.w, h |-> src.h], src.fail, dirOk,
                     output_name_base, widths, 1, Unbound, Result(out, <<>>, FALSE))

\* lines 67-68: `except Exception` prints and swallows
Swallow(res) == Result(res.out, res.log, FALSE)

\* optimize_image without the try/except: the exception leaves the function
optimize_image_uncaught(src, dirOk, output_name_base, widths, out) ==
    IF ~src.exists
    THEN Result(out, <<>>, FALSE)
    ELSE ImageTryBody(src, dirOk, output_name_base, widths, out)

\* optimize_image without the os.path.exists test and with Image.open
\* outside the try: a missing file raises FileNotFoundError
optimize_image_raise_missing(src, dirOk, output_name_base, widths, out) ==
    IF ~src.exists
    THEN Result(out, <<>>, TRUE)
    ELSE Swallow(ImageTryBody(src, dirOk, output_name_base, widths, out))

\* lines 39-68
optimize_image(src, dirOk, output_name_base, widths, out) ==
    IF ~src.exists
    THEN Result(out, <<>>, FALSE)
    ELSE Swallow(ImageTryBody(src, dirOk, output_name_base, widths, out))

----------------------------------------------------------------------------
(* optimize_icon *)

\* line 77: `if img.width > max_width`
IconNeedsResize(img_width, max_width) == img_width > max_width

\* the icon is scaled like a screenshot, keeping its aspect ratio
IconResizedKeepAspect(img, max_width) ==
    [w |-> max_width, h |-> (img.h * max_width) \div img.w]

\* line 78: img.resize((max_width, max_width), LANCZOS)
IconResized(img, max_width) == [w |-> max_width, h |-> max_width]

\* lines 75-82: the body of the try statement
IconTryBody(src, dirOk, output_name, max_width, out) ==
    LET img       == [w |-> src.w, h |-> src.h]
        resizing  == IconNeedsResize(img.w, max_width)
        resized   == IF resizing THEN IconResized(img, max_width) ELSE img
        resizeErr == resizing /\ (ResizeRaises(resized.w, resized.h)
                                   \/ src.fail.op = "resize")
        saveErr   == ~dirOk \/ src.fail.op = "encode"
        name      == output_name \o ".webp"
    IN  IF src.fail.op = "decode" \/ resizeErr \/ saveErr
        THEN Result(out, <<>>, TRUE)
        ELSE Result(Save(out, name, resized),
                    <<[name |-> name, w |-> resized.w, h |-> resized.h]>>, FALSE)

\* optimize_icon without the try/except
optimize_icon_uncaught(src, dirOk, output_name, max_width, out) ==
    IF ~src.exists
    THEN Result(out, <<>>, FALSE)
    ELSE IconTryBody(src, dirOk, output_name, max_width, out)

\* lines 70-84
optimize_icon(src, dirOk, output_name, max_width, out) ==
    IF ~src.exists
    THEN Result(out, <<>>, FALSE)
    ELSE Swallow(IconTryBody(src, dirOk, output_name, max_width, out))

----------------------------------------------------------------------------
(* Inputs *)

\* Pixel sizes <<width, height>> of source files beyond the small grid:
\* the documented 3600x2000 screenshot, one whose height product 145 * 1800 /
\* 2088 = 125 comes out as 124.99999999999999 in binary64, sizes on and
\* between the two target widths, a one-pixel-high strip, and sizes around
\* MAX_WIDTH_ICON.
SampleSizes ==
    { <<3600, 2000>>, <<2088, 145>>, <<1800, 1000>>, <<1200, 800>>,
      <<3600, 1>>, <<161, 80>>, <<100, 300>> }

DefaultProfile(s) ==
    IF s = ICON_PATH THEN Present(1024, 1024, NoFail) ELSE Present(3600, 2000, NoFail)

\* Sizes of the source files of Spec
BatchSizes == { <<2088, 145>>, <<1200, 800>>, <<3600, 1>>, <<100, 300>> }

\* What one source file of Spec can be
Profiles(s) ==
    {Missing}
        \cup {Present(z[1], z[2], NoFail) : z \in BatchSizes}
        \cup {Present(DefaultProfile(s).w, DefaultProfile(s).h, f) : f \in FailModes(Len(TARGET_WIDTHS))}

\* OUTPUT_DIR left by an earlier version of the script
StaleDir ==
    [n \in {"hud-light.webp", "hud-light-small.webp", "app-icon.webp", "retired.webp"} |->
        Artifact([w |-> 800, h |-> 450])]

NoCall ==
    [fn |-> "none", source |-> "", base |-> "", widths |-> <<>>, max_width |-> 0,
     state |-> "none", log |-> <<>>, raised |-> FALSE]

Returned(fn, source, base, widths, max_width, res) ==
    [fn |-> fn, source |-> source, base |-> base, widths |-> widths,
     max_width |-> max_width, state |-> "returned", log |-> res.log, raised |-> res.raised]

Names(log) == [i \in 1..Len(log) |-> log[i].name]

----------------------------------------------------------------------------
(* The process: module level and main() *)

Init ==
    /\ pillow \in BOOLEAN
    /\ \E D \in {X \in SUBSET AllSources : Cardinality(X) <= MaxVaried} :
         \E g \in [D -> UNION {Profiles(s) : s \in AllSources}] :
            /\ \A s \in D : g[s] \in Profiles(s) \ {DefaultProfile(s)}
            /\ fs = [s \in AllSources |-> IF s \in D THEN g[s] ELSE DefaultProfile(s)]
    /\ \E d \in {<<FALSE, EmptyDir>>, <<TRUE, EmptyDir>>, <<TRUE, StaleDir>>} :
         /\ dirExists = d[1]
         /\ outputs = d[2]
    /\ pc = "import"
    /\ idx = 1
    /\ count = 0
    /\ exitStatus = <<>>
    /\ run = 1
    /\ firstRun = EmptyDir
    /\ madeDir = FALSE
    /\ examined = {}
    /\ written = <<>>
    /\ call = NoCall

\* The process ends with `status`; the first run's result is remembered.
Exit(status, out) ==
    /\ pc' = "exit"
    /\ exitStatus' = <<status>>
    /\ firstRun' = IF run = 1 THEN out ELSE firstRun

\* the import is guarded and the failure left to main()'s check
ImportPILGuarded(avail) == TRUE

\* line 4: `from PIL import Image` succeeds iff Pillow is installed
ImportPIL(avail) == avail

\* lines 1-4: the module-level imports; an ImportError is uncaught and ends
\* the process with a traceback and status 1 before main() is entered
ModuleImport ==
    /\ pc = "import"
    /\ IF ImportPIL(pillow)
       THEN /\ pc' = "makedirs"
            /\ UNCHANGED <<exitStatus, firstRun>>
       ELSE Exit(1, outputs)
    /\ UNCHANGED <<pillow, fs, dirExists, outputs, idx, count, run, madeDir,
                   examined, written, call>>

\* lines 87-92
MakeDirs ==
    /\ pc = "makedirs"
    /\ pc' = "check"
    /\ dirExists' = TRUE
    /\ madeDir' = ~dirExists
    /\ UNCHANGED <<pillow, fs, outputs, idx, count, exitStatus, run, firstRun,
                   examined, written, call>>

\* lines 94-103
CheckPillow ==
    /\ pc = "check"
    /\ IF pillow
       THEN /\ pc' = "loop"
            /\ UNCHANGED <<exitStatus, firstRun>>
       ELSE Exit(1, outputs)
    /\ count' = 0
    /\ idx' = 1
    /\ UNCHANGED <<pillow, fs, dirExists, outputs, run, madeDir, examined,
                   written, call>>

\* lines 104-107: one iteration of the loop over FILES_TO_PROCESS
ProcessScreenshot ==
    /\ pc = "loop"
    /\ idx <= Len(FILES_TO_PROCESS)
    /\ LET filename    == FILES_TO_PROCESS[idx].filename
           output_name == FILES_TO_PROCESS[idx].output_name
       IN  \E res \in {optimize_image(fs[filename], dirExists, output_name, TARGET_WIDTHS, outputs)} :
           /\ outputs' = res.out
           /\ examined' = examined \cup {filename}
           /\ written' = written \o Names(res.log)
           /\ call' = Returned("optimize_image", filename, output_name, TARGET_WIDTHS, 0, res)
           /\ IF res.raised
              THEN /\ Exit(1, res.out)
                   /\ UNCHANGED <<count, idx>>
              ELSE /\ count' = count + 1
                   /\ idx' = idx + 1
                   /\ pc' = IF idx = Len(FILES_TO_PROCESS) THEN "icon" ELSE "loop"
                   /\ UNCHANGED <<exitStatus, firstRun>>
    /\ UNCHANGED <<pillow, fs, dirExists, run, madeDir>>

\* lines 109-111
ProcessIcon ==
    /\ pc = "icon"
    /\ \E res \in {optimize_icon(fs[ICON_PATH], dirExists, ICON_OUTPUT_NAME, MAX_WIDTH_ICON, outputs)} :
           /\ outputs' = res.out
           /\ examined' = examined \cup {ICON_PATH}
           /\ written' = written \o Names(res.log)
           /\ call' = Returned("optimize_icon", ICON_PATH, ICON_OUTPUT_NAME, <<>>, MAX_WIDTH_ICON, res)
           /\ IF res.raised
              THEN /\ Exit(1, res.out)
                   /\ UNCHANGED count
              ELSE /\ count' = count + 1
                   /\ pc' = "done"
                   /\ UNCHANGED <<exitStatus, firstRun>>
    /\ UNCHANGED <<pillow, fs, dirExists, idx, run, madeDir>>

\* line 113 and the end of the script: status 0
Finish ==
    /\ pc = "done"
    /\ Exit(0, outputs)
    /\ UNCHANGED <<pillow, fs, dirExists, outputs, idx, count, run, madeDir,
                   examined, written, call>>

\* The developer runs the script again; the inputs and what is on disk stay.
Rerun ==
    /\ pc = "exit"
    /\ run < MaxRuns
    /\ run' = run + 1
    /\ pc' = "import"
    /\ idx' = 1
    /\ count' = 0
    /\ exitStatus' = <<>>
    /\ madeDir' = FALSE
    /\ examined' = {}
    /\ written' = <<>>
    /\ call' = NoCall
    /\ UNCHANGED <<pillow, fs, dirExists, outputs, firstRun>>

Next ==
    \/ ModuleImport
    \/ MakeDirs
    \/ CheckPillow
    \/ ProcessScreenshot
    \/ ProcessIcon
    \/ Finish
    \/ Rerun

Spec == Init /\ [][Next]_vars

----------------------------------------------------------------------------
(* One call of optimize_image or optimize_icon on drawn arguments *)

Labels == {"large", "small", "thumb"}

WidthValues == (1..MaxDim) \cup {900, 1800}

FnSizes == ((1..MaxDim) \X (1..MaxDim)) \cup SampleSizes

\* the insertion-ordered dicts label -> width with 1..MaxTargets entries
WidthMaps ==
    UNION { { m \in [1..n -> [label : Labels, width : WidthValues]] :
                \A i, j \in 1..n : i # j => m[i].label # m[j].label }
            : n \in 1..MaxTargets }

FnProfiles ==
    {Missing} \cup {Present(z[1], z[2], f) : z \in FnSizes, f \in FailModes(MaxTargets)}

FnSource == "HUD Light.png"

FnBase == "hud-light"

Pending(fn, source, base, widths, max_width) ==
    [fn |-> fn, source |-> source, base |-> base, widths |-> widths,
     max_width |-> max_width, state |-> "pending", log |-> <<>>, raised |-> FALSE]

InitFn ==
    /\ pillow = TRUE
    /\ dirExists = TRUE
    /\ outputs = EmptyDir
    /\ pc = "call"
    /\ idx = 1
    /\ count = 0
    /\ exitStatus = <<>>
    /\ run = 1
    /\ firstRun = EmptyDir
    /\ madeDir = FALSE
    /\ examined = {}
    /\ written = <<>>
    /\ \E p \in FnProfiles :
         \/ /\ fs = [s \in AllSources |-> IF s = FnSource THEN p ELSE Missing]
            /\ \E widths \in WidthMaps :
                 call = Pending("optimize_image", FnSource, FnBase, widths, 0)
         \/ /\ fs = [s \in AllSources |-> IF s = ICON_PATH THEN p ELSE Missing]
            /\ p.fail.at <= 1
            /\ \E max_width \in WidthValues \cup {MAX_WIDTH_ICON} :
                 call = Pending("optimize_icon", ICON_PATH, ICON_OUTPUT_NAME, <<>>, max_width)

FnOptimizeImage ==
    /\ pc = "call"
    /\ call.fn = "optimize_image"
    /\ \E res \in {optimize_image(fs[call.source], dirExists, call.base, call.widths, outputs)} :
         /\ outputs' = res.out
         /\ written' = written \o Names(res.log)
         /\ call' = Returned(call.fn, call.source, call.base, call.widths, call.max_width, res)
         /\ pc' = IF res.raised THEN "raised" ELSE "returned"
    /\ examined' = examined \cup {call.source}
    /\ UNCHANGED <<pillow, fs, dirExists, idx, count, exitStatus, run, firstRun, madeDir>>

FnOptimizeIcon ==
    /\ pc = "call"
    /\ call.fn = "optimize_icon"
    /\ \E res \in {optimize_icon(fs[call.source], dirExists, call.base, call.max_width, outputs)} :
         /\ outputs' = res.out
         /\ written' = written \o Names(res.log)
         /\ call' = Returned(call.fn, call.source, call.base, call.widths, call.max_width, res)
         /\ pc' = IF res.raised THEN "raised" ELSE "returned"
    /\ examined' = examined \cup {call.source}
    /\ UNCHANGED <<pillow, fs, dirExists, idx, count, exitStatus, run, firstRun, madeDir>>

NextFn ==
    \/ FnOptimizeImage
    \/ FnOptimizeIcon

SpecFn == InitFn /\ [][NextFn]_vars

----------------------------------------------------------------------------
(* Properties *)

Abs(x) == IF x < 0 THEN 0 - x ELSE x

\* num / den rounded to the nearest integer (halves up)
Round(num, den) == (2 * num + den) \div (2 * den)

ImageReturned ==
    /\ call.state = "returned"
    /\ call.fn = "optimize_image"
    /\ fs[call.source].exists

IconReturned ==
    /\ call.state = "returned"
    /\ call.fn = "optimize_icon"
    /\ fs[call.source].exists

\* the artifact that entry i of the call's log says was saved is on disk
OnDisk(i) ==
    /\ call.log[i].name \in DOMAIN outputs
    /\ outputs[call.log[i].name] = Artifact(call.log[i])

\* C1: optimize_image, source W x H present, target w with W > w: the saved
\* variant is w wide and its height is within one pixel of round(H * w / W);
\* a 3600x2000 source with {large: 1800, small: 900} gives 1800x1000 and
\* 900x500.
C1_ResizedDimensions ==
    ImageReturned =>
        LET W == fs[call.source].w
            H == fs[call.source].h
        IN  /\ \A i \in 1..Len(call.log) :
                  W > call.widths[i].width =>
                      /\ call.log[i].w = call.widths[i].width
                      /\ Abs(call.log[i].h - Round(H * call.widths[i].width, W)) <= 1
                      /\ OnDisk(i)
            /\ (W = 3600 /\ H = 2000 /\ call.widths = TARGET_WIDTHS
                    /\ fs[call.source].fail = NoFail)
                 => /\ Len(call.log) = 2
                    /\ <<call.log[1].w, call.log[1].h>> = <<1800, 1000>>
                    /\ <<call.log[2].w, call.log[2].h>> = <<900, 500>>

\* a downscaled variant was saved whose exact height H * w / W is an integer
\* and whose saved height is one below it (the float product fell short and
\* int() truncated)
C1_Witness ==
    /\ ImageReturned
    /\ \E i \in 1..Len(call.log) :
          LET W == fs[call.source].w
              H == fs[call.source].h
              w == call.widths[i].width
          IN  /\ W > w
              /\ (H * w) % W = 0
              /\ call.log[i].h = (H * w) \div W - 1

\* C2 as stated: a variant is named {base}.webp if it is the target labelled
\* with the primary label or if it is the only target, whatever its label;
\* otherwise {base}-{label}.webp.
C2_NameAsStated ==
    ImageReturned =>
        \A i \in 1..Len(call.log) :
            call.log[i].name =
                IF call.widths[i].label = "large" \/ Len(call.widths) = 1
                THEN call.base \o ".webp"
                ELSE call.base \o "-" \o call.widths[i].label \o ".webp"

\* C2 amended: a variant is named {base}.webp exactly when its label is
\* "large", and {base}-{label}.webp otherwise, also when it is the only
\* target; {large, small} with base hud-light give hud-light.webp and
\* hud-light-small.webp.
C2_NameByLabel ==
    ImageReturned =>
        /\ \A i \in 1..Len(call.log) :
              /\ call.widths[i].label = "large" => call.log[i].name = call.base \o ".webp"
              /\ call.widths[i].label # "large" =>
                    call.log[i].name = call.base \o "-" \o call.widths[i].label \o ".webp"
        /\ (Len(call.log) = 2 /\ call.base = "hud-light"
                /\ call.widths[1].label = "large" /\ call.widths[2].label = "small")
             => Names(call.log) = <<"hud-light.webp", "hud-light-small.webp">>

\* a single target that is not labelled "large" was saved
C2_Witness ==
    /\ ImageReturned
    /\ Len(call.widths) = 1
    /\ call.widths[1].label # "large"
    /\ Len(call.log) = 1
    /\ call.log[1].name = "hud-light-" \o call.widths[1].label \o ".webp"

\* C6: optimize_icon, source W x H present: the saved icon is max_size x
\* max_size if W > max_size, and W x H if W <= max_size.
C6_IconDimensions ==
    IconReturned =>
        \A i \in 1..Len(call.log) :
            /\ fs[call.source].w > call.max_width =>
                  <<call.log[i].w, call.log[i].h>> = <<call.max_width, call.max_width>>
            /\ fs[call.source].w <= call.max_width =>
                  <<call.log[i].w, call.log[i].h>> = <<fs[call.source].w, fs[call.source].h>>
            /\ OnDisk(i)

\* a wider-than-max icon that is not square was saved
C6_Witness ==
    /\ IconReturned
    /\ Len(call.log) = 1
    /\ fs[call.source].w > call.max_width
    /\ fs[call.source].w # fs[call.source].h
    /\ call.log[1].w = call.max_width

\* C7: optimize_image, source of width W present, target w with W <= w: the
\* saved variant has the source's width and height, whatever the other
\* targets of the call are.
C7_NeverUpscaled ==
    ImageReturned =>
        \A i \in 1..Len(call.log) :
            fs[call.source].w <= call.widths[i].width =>
                /\ <<call.log[i].w, call.log[i].h>> = <<fs[call.source].w, fs[call.source].h>>
                /\ OnDisk(i)

\* after a variant that was downscaled, a variant whose target is not below
\* the source width was saved
C7_Witness ==
    /\ ImageReturned
    /\ Len(call.log) >= 2
    /\ fs[call.source].w > call.widths[1].width
    /\ fs[call.source].w <= call.widths[2].width
    /\ call.log[1].w < fs[call.source].w

----------------------------------------------------------------------------
(* Properties of the whole run *)

BatchSize == Len(FILES_TO_PROCESS) + 1

\* the output names a source of the batch maps to
NamesOf(s) ==
    IF s = ICON_PATH
    THEN {ICON_OUTPUT_NAME \o ".webp"}
    ELSE LET e == CHOOSE i \in 1..Len(FILES_TO_PROCESS) : FILES_TO_PROCESS[i].filename = s
         IN  {FinalName(FILES_TO_PROCESS[e].output_name, TARGET_WIDTHS[i].label) :
                  i \in 1..Len(TARGET_WIDTHS)}

\* every output name of the batch
PlannedNames == UNION {NamesOf(s) : s \in AllSources}

WrittenNames == {written[i] : i \in 1..Len(written)}

\* Pillow processes the source without an error
Healthy(s) ==
    /\ fs[s].exists
    /\ fs[s].fail = NoFail
    /\ s # ICON_PATH =>
          \A i \in 1..Len(TARGET_WIDTHS) :
              fs[s].w > TARGET_WIDTHS[i].width =>
                  IntOfProduct(fs[s].h, TARGET_WIDTHS[i].width, fs[s].w) >= 1

\* the artifacts a run without failures leaves for source s
FailureFree(s) ==
    IF s = ICON_PATH
    THEN [n \in NamesOf(s) |->
            IF fs[s].w > MAX_WIDTH_ICON
            THEN Artifact([w |-> MAX_WIDTH_ICON, h |-> MAX_WIDTH_ICON])
            ELSE Artifact(fs[s])]
    ELSE LET e == CHOOSE i \in 1..Len(FILES_TO_PROCESS) : FILES_TO_PROCESS[i].filename = s
         IN  [n \in NamesOf(s) |->
                LET t == CHOOSE i \in 1..Len(TARGET_WIDTHS) :
                            FinalName(FILES_TO_PROCESS[e].output_name, TARGET_WIDTHS[i].label) = n
                    w == TARGET_WIDTHS[t].width
                IN  IF fs[s].w > w
                    THEN Artifact([w |-> w, h |-> IntOfProduct(fs[s].h, w, fs[s].w)])
                    ELSE Artifact(fs[s])]

\* C3: a source file that does not exist gets no artifact written in the
\* run, its call returns without an exception, and the driver goes on to
\* the remaining entries and ends normally.
C3_MissingSource ==
    \A s \in AllSources :
        ~fs[s].exists =>
            /\ NamesOf(s) \cap WrittenNames = {}
            /\ (call.state = "returned" /\ call.source = s) =>
                  (~call.raised /\ call.log = <<>>)
            /\ (pc = "exit" /\ s \in examined) =>
                  (exitStatus = <<0>> /\ examined = AllSources /\ count = BatchSize)

\* the run has ended after meeting a missing screenshot and writing the
\* artifacts of the others
C3_Witness ==
    /\ pc = "exit"
    /\ \E s \in Screenshots : ~fs[s].exists /\ s \in examined
    /\ Len(written) = 2 * (Len(FILES_TO_PROCESS) - 1) + 1

\* C4: a decode, resize or encode failure of one source stays inside its
\* call; the driver still handles every entry and the icon; every other
\* source ends with exactly the artifacts of a failure-free run, and only
\* the failed source has none or fewer.
C4_FailureContained ==
    /\ ~call.raised
    /\ (pc = "exit" /\ pillow) =>
          /\ examined = AllSources
          /\ \A s \in AllSources :
                IF Healthy(s)
                THEN \A n \in NamesOf(s) :
                        /\ n \in WrittenNames
                        /\ n \in DOMAIN outputs
                        /\ outputs[n] = FailureFree(s)[n]
                ELSE NamesOf(s) \cap WrittenNames # NamesOf(s)

\* the run has ended after Pillow failed on the first screenshot
C4_Witness ==
    /\ pc = "exit"
    /\ fs[FILES_TO_PROCESS[1].filename].exists
    /\ fs[FILES_TO_PROCESS[1].filename].fail.op # "none"
    /\ examined = AllSources
    /\ Len(written) >= 2 * (Len(FILES_TO_PROCESS) - 1) + 1

\* C5: with the imaging library available, whatever files are missing or
\* fail, the run handles the whole batch and exits with status 0; a
\* non-zero status occurs only without the library.
C5_ExitStatus ==
    pc = "exit" =>
        /\ pillow => (exitStatus = <<0>> /\ count = BatchSize /\ examined = AllSources)
        /\ exitStatus # <<0>> => ~pillow

\* the run exited with status 0 although the icon was missing or failed
C5_Witness ==
    /\ pc = "exit"
    /\ exitStatus = <<0>>
    /\ ~Healthy(ICON_PATH)

\* C8: the (source, variant) pairs of the batch and the icon map to pairwise
\* distinct file names, so a run never saves the same name twice.
C8_DistinctPaths ==
    /\ \A i, j \in 1..Len(written) : i # j => written[i] # written[j]
    /\ Cardinality(PlannedNames) = Len(FILES_TO_PROCESS) * Len(TARGET_WIDTHS) + 1

\* a run has saved every artifact of the batch
C8_Witness ==
    /\ pc = "exit"
    /\ Len(written) = 2 * Len(FILES_TO_PROCESS) + 1

\* C9: on unchanged inputs every later run ends with the output directory
\* exactly as the first run left it (names, dimensions, format), having
\* overwritten the files in place.
C9_Idempotent ==
    (pc = "exit" /\ run > 1) =>
        /\ outputs = firstRun
        /\ WrittenNames \subseteq DOMAIN firstRun

\* a second run has ended after saving artifacts over those of the first
C9_Witness ==
    /\ pc = "exit"
    /\ run = 2
    /\ Len(written) >= 2 * (Len(FILES_TO_PROCESS) - 1)
    /\ outputs = firstRun

\* C10: without the imaging library the process ends before any work: it
\* never reaches main(), does not create the output directory and examines
\* or processes no source file.
C10_AbortBeforeWork ==
    ~pillow =>
        /\ pc \in {"import", "exit"}
        /\ madeDir = FALSE
        /\ examined = {}
        /\ written = <<>>
        /\ call = NoCall
        /\ pc = "exit" => exitStatus = <<1>>

\* the process has ended without the library and the output directory is
\* still absent
C10_Witness ==
    /\ ~pillow
    /\ pc = "exit"
    /\ exitStatus = <<1>>
    /\ ~dirExists

====
